---- MODULE Spec2Model ----
(***************************************************************************)
(* Model of chapter13/lesson13g.py: the audit-data folder monitor          *)
(* (load_previous_files, save_loaded_files, load_and_embed_data,           *)
(* AuditDataHandler.on_created, process_existing_files,                    *)
(* monitor_audit_data_folder) and retrieve_data_for_audit_query.           *)
(*                                                                         *)
(* One process runs monitor_audit_data_folder on its main thread; the      *)
(* watchdog observer thread runs on_created, one event at a time.  The     *)
(* environment creates entries in the folder, delivers KeyboardInterrupt   *)
(* to the main thread, and may kill the process at any step (Crash).       *)
(***************************************************************************)
EXTENDS Integers, Sequences, FiniteSets, TLC

\* ------------------------------------------------------------------ bounds
MaxRows == 2
MaxCreates == 1
MaxRestarts == 1
MaxStoreRows == 6

\* ----------------------------------------------------------- configuration
\* table_config.TABLE_CONFIG (imported at line 10): file name -> table and
\* the text fields used for the embedding input.
TABLE_CONFIG ==
    [f \in {"vendors.csv", "invoices.csv"} |->
        IF f = "vendors.csv"
        THEN [table |-> "vendor_payments", text_fields |-> <<"vendor_name", "memo">>]
        ELSE [table |-> "invoices", text_fields |-> <<"memo">>]]

RoutedFiles == DOMAIN TABLE_CONFIG
Tables == {TABLE_CONFIG[f].table : f \in RoutedFiles}

\* What can appear in the watched folder: the routed files, a file with no
\* routing rule, and a sub-directory.
Entries == RoutedFiles \cup {"notes.txt", "archive"}
IsDirectory(e) == e = "archive"
IsFile(e) == ~IsDirectory(e)

\* ---------------------------------------------------------------- embedding
\* Embeddings are unit vectors of the plane, so that the cosine similarity of
\* two of them is their dot product.
UnitVectors == << <<1, 0>>, <<0, 1>>, <<-1, 0>>, <<0, -1>> >>

RECURSIVE SumSeq(_)
SumSeq(s) == IF s = <<>> THEN 0 ELSE Head(s) + SumSeq(Tail(s))

\* get_embedding: an opaque deterministic function of the text.
get_embedding(text) == UnitVectors[(SumSeq(text) % 4) + 1]

\* " ".join([str(row[field]) for field in text_fields]): the values of the
\* text fields in declared order.
TextForEmbedding(row, text_fields) ==
    [k \in 1..Len(text_fields) |-> row[text_fields[k]]]

\* ------------------------------------------------------------------- files
\* The number of rows of file f: vendors.csv is the long file, invoices.csv
\* holds a single row.
NumRows(f) == IF f = "vendors.csv" THEN MaxRows ELSE 1

\* The columns of a complete file.
AllColumns == {"recordid", "vendor_name", "memo"}

\* The header lines a file named e can be created with: complete, or, for
\* invoices.csv, without the column memo that TABLE_CONFIG names as its
\* text field.
ColumnChoices(e) ==
    IF e = "invoices.csv" THEN {AllColumns, AllColumns \ {"memo"}} ELSE {AllColumns}

\* pd.read_csv of file f holding content version v under the header cols:
\* one row per record, of the columns of the header.
ReadCsv(f, v, cols) ==
    [i \in 1..NumRows(f) |-> [c \in cols |-> IF c = "memo" THEN v ELSE i]]

\* row[field] (line 72) raises KeyError for a field that is no column.
HasFields(row, text_fields) ==
    \A k \in 1..Len(text_fields) : text_fields[k] \in DOMAIN row

VARIABLES
    folder,        \* entries present in the watched folder
    fileVer,       \* content version of each routed file
    columns,       \* header (set of columns) of each routed file
    store,         \* the database: table name -> set of rows
    ledgerFile,    \* the file .loaded_files: [exists, lines]
    loaded_files,  \* the module-level set loaded_files
    pc,            \* position of the main thread in monitor_audit_data_folder
    todo,          \* entries of os.listdir not yet visited by the scan
    ing,           \* the load_and_embed_data call in progress
    observer,      \* the watchdog observer thread
    queue,         \* creation events not yet dispatched
    hpc,           \* position of the observer thread in on_created
    last,          \* the trigger handled last: [by, name, res]
    creates,       \* number of entries created so far
    restarts,      \* number of process restarts so far
    ret,           \* the retrieve_data_for_audit_query call
    rt             \* a save_loaded_files / load_previous_files round trip

vars == <<folder, fileVer, columns, store, ledgerFile, loaded_files, pc, todo, ing,
          observer, queue, hpc, last, creates, restarts, ret, rt>>

envVars == <<folder, fileVer, columns, creates>>
diskVars == <<store, ledgerFile>>

NoIng == [phase |-> "none", by |-> "none", file |-> "none", df |-> <<>>,
          idx |-> 0, txn |-> "idle", err |-> "none", log |-> <<>>]
NoLast == [by |-> "none", name |-> "none", res |-> "none"]
NoRet == [pc |-> "idle", query_text |-> <<>>, query_embedding |-> <<0, 0>>,
          todo |-> <<>>, table_results |-> <<>>, failed |-> {},
          response |-> <<>>]

NoRt == [pc |-> "idle", names |-> {}, exists |-> FALSE, text |-> <<>>,
         loaded |-> {}]

\* The state of a freshly started process (module import, lines 46-47).
FreshProcess ==
    /\ loaded_files' = {}
    /\ pc' = "start"
    /\ todo' = {}
    /\ ing' = NoIng
    /\ observer' = "none"
    /\ queue' = <<>>
    /\ hpc' = "idle"
    /\ last' = NoLast

\* The program is started for the first time: the folder holds one routed
\* file and a sub-directory, the tables are empty, no ledger file exists.
Init ==
    /\ folder = {"vendors.csv", "archive"}
    /\ fileVer = [f \in RoutedFiles |-> 1]
    /\ columns = [f \in RoutedFiles |-> AllColumns]
    /\ store = [t \in Tables |-> {}]
    /\ ledgerFile = [exists |-> FALSE, lines |-> {}]
    /\ loaded_files = {}
    /\ pc = "start"
    /\ todo = {}
    /\ ing = NoIng
    /\ observer = "none"
    /\ queue = <<>>
    /\ hpc = "idle"
    /\ last = NoLast
    /\ creates = 0
    /\ restarts = 0
    /\ ret = NoRet
    /\ rt = NoRt

\* ------------------------------------------------------------------ ledger
\* Mutant of LoadPreviousFiles: the observer is started before the scan.
LoadPreviousFiles_ObserverFirst ==
    /\ pc = "start"
    /\ loaded_files' = IF ledgerFile.exists
                       THEN loaded_files \cup ledgerFile.lines
                       ELSE loaded_files
    /\ pc' = "listdir"
    /\ observer' = "running"
    /\ UNCHANGED <<envVars, diskVars, todo, ing, queue, hpc, last, restarts, ret, rt>>

\* load_previous_files (lines 49-54).
LoadPreviousFiles ==
    /\ pc = "start"
    /\ loaded_files' = IF ledgerFile.exists
                       THEN loaded_files \cup ledgerFile.lines
                       ELSE loaded_files
    /\ pc' = "listdir"
    /\ UNCHANGED <<envVars, diskVars, todo, ing, observer, queue, hpc, last, restarts, ret, rt>>

\* What `last` records when reading or writing .loaded_files has raised in
\* thread `by`.
LedgerError(by) == [by |-> by, name |-> ".loaded_files", res |-> "ledger_error"]

\* load_previous_files raises on the existing file (lines 51-52): the
\* exception is caught at lines 155-156, which log it, and
\* monitor_audit_data_folder returns.
LoadPreviousFilesFail ==
    /\ pc = "start" /\ ledgerFile.exists
    /\ pc' = "failed"
    /\ last' = LedgerError("start")
    /\ UNCHANGED <<envVars, diskVars, loaded_files, todo, ing, observer, queue,
                   hpc, restarts, ret, rt>>

\* open(LOADED_FILES_PATH, "w") (line 58): creates or truncates the file.
OpenForWrite == [exists |-> TRUE, lines |-> {}]

\* The loop of lines 59-60 and the close of the file: one line per member.
WriteLines(names) == [exists |-> TRUE, lines |-> names]

\* ------------------------------------------------------ load_and_embed_data
\* The process is running: monitor_audit_data_folder has neither returned nor
\* been ended by an uncaught KeyboardInterrupt or a crash ("failed": it has
\* returned through the handler of lines 155-156).
Alive == pc \notin {"returned", "killed", "crashed", "failed"}

\* The call load_and_embed_data(file_path, table, text_fields) is entered by
\* thread `by` ("scan": the main thread, "event": the observer thread).
StartLoad(by, f) == [NoIng EXCEPT !.phase = "read", !.by = by, !.file = f]

\* Mutant of Upsert: ON CONFLICT (recordid) DO NOTHING.
Upsert_DoNothing(rows, row) ==
    IF \E r \in rows : r.recordid = row.recordid THEN rows ELSE rows \cup {row}

\* INSERT ... ON CONFLICT (recordid) DO UPDATE SET every column and the
\* embedding (lines 76-84): the row with this recordid, if any, is replaced.
Upsert(rows, row) == {r \in rows : r.recordid # row.recordid} \cup {row}

\* The row written at line 87: [*row, embedding].
StoredRow(row, embedding) ==
    [recordid |-> row.recordid, vendor_name |-> row.vendor_name,
     memo |-> row.memo, embedding |-> embedding]

\* What can happen to one row taken alone: "ok", or get_embedding raises
\* ("embed"), cursor.execute raises ("execute"), conn.commit raises ("commit").
RowFates == {"ok", "embed", "execute", "commit"}

\* How a load_and_embed_data call that has returned ended: "parse",
\* "keyerror" or "embed" (the call was abandoned at line 93), "aborted" (a row that was itself fine
\* was refused by the aborted transaction), "skipped" (rows failed, each on
\* its own), "none" (every row was written).
CallOutcome(i) ==
    IF i.err # "none" THEN i.err
    ELSE IF \E k \in 1..Len(i.log) : i.log[k].result = "failed" /\ i.log[k].fate = "ok"
         THEN "aborted"
    ELSE IF \E k \in 1..Len(i.log) : i.log[k].result = "failed"
         THEN "skipped"
    ELSE "none"

\* The record kept of a call once its caller has marked the file.
Marked(i) ==
    [NoIng EXCEPT !.phase = "marked", !.by = i.by, !.file = i.file,
                  !.err = CallOutcome(i)]

\* A load_and_embed_data call is in progress, or has returned to a caller
\* that has not marked the file yet ("marked" keeps the record of the last
\* call until the next one starts).
InFlight(i) == i.phase \in {"read", "rows", "returned"}

\* A thread can run its load_and_embed_data call.
Loading == Alive /\ InFlight(ing)

\* pd.read_csv(file_path) and psycopg2.connect succeed (lines 65-70).
ReadCsvOk ==
    /\ Loading /\ ing.phase = "read"
    /\ LET df == ReadCsv(ing.file, fileVer[ing.file], columns[ing.file])
           new == [ing EXCEPT !.df = df, !.idx = 1,
                              !.phase = IF Len(df) = 0 THEN "returned" ELSE "rows"]
       IN ing' = new
    /\ UNCHANGED <<envVars, diskVars, loaded_files, pc, todo, observer, queue,
                   hpc, last, restarts, ret, rt>>

\* Mutant of ReadCsvFail: the exception is not caught in load_and_embed_data
\* and reaches the caller's thread.
ReadCsvFail_Escalates ==
    /\ Loading /\ ing.phase = "read"
    /\ ing' = [ing EXCEPT !.phase = "returned", !.err = "parse"]
    /\ pc' = IF ing.by = "scan" THEN "failed" ELSE pc
    /\ observer' = IF ing.by = "event" THEN "dead" ELSE observer
    /\ hpc' = "idle"
    /\ UNCHANGED <<envVars, diskVars, loaded_files, todo, queue, last, restarts, ret, rt>>

\* pd.read_csv (or psycopg2.connect) raises: the outer handler of lines 93-94
\* logs the error and the call returns normally.
ReadCsvFail ==
    /\ Loading /\ ing.phase = "read"
    /\ ing' = [ing EXCEPT !.phase = "returned", !.err = "parse"]
    /\ UNCHANGED <<envVars, diskVars, loaded_files, pc, todo, observer, queue,
                   hpc, last, restarts, ret, rt>>

\* Mutant of RowStep: a row is reported written although nothing reached the
\* table (the commit of line 88 left out).
RowStep_NoCommit(i, rows, fate, text_fields) ==
    LET row == i.df[i.idx]
        exists == \E r \in rows : r.recordid = row.recordid
        next(result, txn) ==
            [i EXCEPT !.log = Append(@, [fate |-> fate, result |-> result]),
                      !.txn = txn,
                      !.idx = @ + 1,
                      !.phase = IF i.idx = Len(i.df) THEN "returned" ELSE "rows"]
    IN IF ~HasFields(row, text_fields)
       THEN [ing |-> [i EXCEPT !.log = Append(@, [fate |-> "none", result |-> "no_text"]),
                               !.err = "keyerror", !.phase = "returned"],
             rows |-> rows]
       ELSE IF fate = "embed"
       THEN [ing |-> [i EXCEPT !.log = Append(@, [fate |-> fate, result |-> "no_embedding"]),
                               !.err = "embed", !.phase = "returned"],
             rows |-> rows]
       ELSE IF i.txn = "aborted" \/ fate = "execute"
       THEN [ing |-> next("failed", "aborted"), rows |-> rows]
       ELSE IF fate = "commit"
       THEN [ing |-> next("failed", "idle"), rows |-> rows]
       ELSE [ing |-> next(IF exists THEN "updated" ELSE "inserted", "idle"),
             rows |-> rows]

\* The result of the body of the row loop (lines 72-90) for the row at
\* ing.idx whose own fate is `fate`: [ing, rows], the call's next state and
\* the table's rows.
\*  - row[field] (line 72) raises KeyError when a configured text field is
\*    no column of the file; like the next case it is caught at line 93.
\*  - get_embedding (line 73) is outside the inner try: its exception leaves
\*    the loop and is caught at line 93, which ends the call.
\*  - cursor.execute raising leaves the connection's transaction aborted; no
\*    rollback follows (lines 89-90), so every later execute on the connection
\*    raises InFailedSqlTransaction.
\*  - conn.commit raising discards the row; the server has rolled back.
RowStep(i, rows, fate, text_fields) ==
    LET row == i.df[i.idx]
        embedding == get_embedding(TextForEmbedding(row, text_fields))
        exists == \E r \in rows : r.recordid = row.recordid
        next(result, txn) ==
            [i EXCEPT !.log = Append(@, [fate |-> fate, result |-> result]),
                      !.txn = txn,
                      !.idx = @ + 1,
                      !.phase = IF i.idx = Len(i.df) THEN "returned" ELSE "rows"]
    IN IF ~HasFields(row, text_fields)
       THEN [ing |-> [i EXCEPT !.log = Append(@, [fate |-> "none", result |-> "no_text"]),
                               !.err = "keyerror", !.phase = "returned"],
             rows |-> rows]
       ELSE IF fate = "embed"
       THEN [ing |-> [i EXCEPT !.log = Append(@, [fate |-> fate, result |-> "no_embedding"]),
                               !.err = "embed", !.phase = "returned"],
             rows |-> rows]
       ELSE IF i.txn = "aborted" \/ fate = "execute"
       THEN [ing |-> next("failed", "aborted"), rows |-> rows]
       ELSE IF fate = "commit"
       THEN [ing |-> next("failed", "idle"), rows |-> rows]
       ELSE [ing |-> next(IF exists THEN "updated" ELSE "inserted", "idle"),
             rows |-> Upsert(rows, StoredRow(row, embedding))]

\* One iteration of the row loop.
ProcessRow(fate) ==
    /\ Loading /\ ing.phase = "rows"
    /\ LET config == TABLE_CONFIG[ing.file]
           step == RowStep(ing, store[config.table], fate, config.text_fields)
       IN /\ ing' = step.ing
          /\ store' = [store EXCEPT ![config.table] = step.rows]
    /\ UNCHANGED <<envVars, ledgerFile, loaded_files, pc, todo, observer, queue,
                   hpc, last, restarts, ret, rt>>

\* --------------------------------------------------- process_existing_files
\* Mutant of ScanShouldIngest: the ledger is not consulted.
ScanShouldIngest_NoLedger(e) ==
    IsFile(e) /\ e \in DOMAIN TABLE_CONFIG

\* The condition of line 116.
ScanShouldIngest(e) ==
    IsFile(e) /\ e \in DOMAIN TABLE_CONFIG /\ e \notin loaded_files

\* os.listdir(folder_path) (line 114).
ListDir ==
    /\ pc = "listdir"
    /\ todo' = folder
    /\ pc' = "scan"
    /\ UNCHANGED <<envVars, diskVars, loaded_files, ing, observer, queue, hpc,
                   last, restarts, ret, rt>>

\* The loop takes the next entry, in the listing's arbitrary order, and
\* either enters load_and_embed_data or passes over the entry.
ScanVisit(e) ==
    /\ pc = "scan" /\ e \in todo
    /\ todo' = todo \ {e}
    /\ IF ScanShouldIngest(e)
       THEN /\ ing' = StartLoad("scan", e)
            /\ pc' = "scan_ingest"
            /\ last' = [by |-> "scan", name |-> e, res |-> "ingest"]
       ELSE /\ last' = [by |-> "scan", name |-> e, res |-> "ignored"]
            /\ UNCHANGED <<ing, pc>>
    /\ UNCHANGED <<envVars, diskVars, loaded_files, observer, queue, hpc, restarts, ret, rt>>

\* Mutant of ScanMark: the file is marked only when no row of it failed.
ScanMark_OnlyIfClean ==
    /\ pc = "scan_ingest" /\ ing.phase = "returned" /\ ing.by = "scan"
    /\ loaded_files' = IF CallOutcome(ing) = "none"
                       THEN loaded_files \cup {ing.file}
                       ELSE loaded_files
    /\ ing' = Marked(ing)
    /\ pc' = "scan"
    /\ UNCHANGED <<envVars, diskVars, todo, observer, queue, hpc, last, restarts, ret, rt>>

\* loaded_files.add(file_name) (line 123), after the call has returned.
ScanMark ==
    /\ pc = "scan_ingest" /\ ing.phase = "returned" /\ ing.by = "scan"
    /\ loaded_files' = loaded_files \cup {ing.file}
    /\ ing' = Marked(ing)
    /\ pc' = "scan"
    /\ UNCHANGED <<envVars, diskVars, todo, observer, queue, hpc, last, restarts, ret, rt>>

\* save_loaded_files() after the loop (line 124): the open ...
ScanSaveOpen ==
    /\ pc = "scan" /\ todo = {}
    /\ ledgerFile' = OpenForWrite
    /\ pc' = "scan_write"
    /\ UNCHANGED <<envVars, store, loaded_files, todo, ing, observer, queue,
                   hpc, last, restarts, ret, rt>>

\* ... and the writes and the close.
ScanSaveWrite ==
    /\ pc = "scan_write"
    /\ ledgerFile' = WriteLines(loaded_files)
    /\ pc' = "start_observer"
    /\ UNCHANGED <<envVars, store, loaded_files, todo, ing, observer, queue,
                   hpc, last, restarts, ret, rt>>

\* Mutant of ScanSaveFail: the error is logged and the watcher goes on.
ScanSaveFail_Swallowed ==
    /\ \/ pc = "scan" /\ todo = {}
       \/ pc = "scan_write"
    /\ pc' = "start_observer"
    /\ last' = LedgerError("scan")
    /\ UNCHANGED <<envVars, diskVars, loaded_files, todo, ing, observer, queue,
                   hpc, restarts, ret, rt>>

\* save_loaded_files raises in the startup scan, at the open of line 58 or
\* at a write of line 60 (the file then stays as the open left it): the
\* exception leaves process_existing_files and is caught at lines 155-156;
\* monitor_audit_data_folder returns without starting the observer.
ScanSaveFail ==
    /\ \/ pc = "scan" /\ todo = {}
       \/ pc = "scan_write"
    /\ pc' = "failed"
    /\ last' = LedgerError("scan")
    /\ UNCHANGED <<envVars, diskVars, loaded_files, todo, ing, observer, queue,
                   hpc, restarts, ret, rt>>

\* ------------------------------------------------ monitor_audit_data_folder
\* observer.schedule and observer.start (lines 139-142).
StartObserver ==
    /\ pc = "start_observer"
    /\ observer' = "running"
    /\ pc' = "log_monitoring"
    /\ UNCHANGED <<envVars, diskVars, loaded_files, todo, ing, queue, hpc,
                   last, restarts, ret, rt>>

\* logging.info and entry into the try of the sleep loop (lines 143-147).
EnterSleepLoop ==
    /\ pc = "log_monitoring"
    /\ pc' = "sleeping"
    /\ UNCHANGED <<envVars, diskVars, loaded_files, todo, ing, observer, queue,
                   hpc, last, restarts, ret, rt>>

\* KeyboardInterrupt reaches the main thread outside the try of lines
\* 145-150.  It is no Exception, so neither line 93 nor lines 153-156 catch
\* it: the process ends there, with the daemon observer thread.
InterruptUncaught ==
    /\ Alive /\ pc \notin {"sleeping", "stopping"}
    /\ pc' = "killed"
    /\ UNCHANGED <<envVars, diskVars, loaded_files, todo, ing, observer, queue,
                   hpc, last, restarts, ret, rt>>

\* KeyboardInterrupt in the sleep loop: observer.stop() (lines 148-150).
InterruptCaught ==
    /\ pc = "sleeping"
    /\ pc' = "stopping"
    /\ observer' = IF observer = "dead" THEN "dead" ELSE "stopping"
    /\ UNCHANGED <<envVars, diskVars, loaded_files, todo, ing, queue, hpc,
                   last, restarts, ret, rt>>

\* observer.join() (line 151) returns once the observer thread has left its
\* dispatch loop, which it does after the handler call in progress.
Join ==
    /\ pc = "stopping" /\ hpc = "idle"
    /\ pc' = "returned"
    /\ observer' = "stopped"
    /\ UNCHANGED <<envVars, diskVars, loaded_files, todo, ing, queue, hpc,
                   last, restarts, ret, rt>>

\* ------------------------------------------- AuditDataHandler.on_created
\* Mutant of EventShouldIngest: the ledger is not consulted.
EventShouldIngest_NoLedger(e) ==
    ~IsDirectory(e) /\ e \in DOMAIN TABLE_CONFIG

\* The conditions of lines 99 and 102.
EventShouldIngest(e) ==
    ~IsDirectory(e) /\ e \in DOMAIN TABLE_CONFIG /\ e \notin loaded_files

\* The observer thread takes the next event and calls on_created.
Dispatch ==
    /\ Alive /\ observer = "running" /\ hpc = "idle" /\ queue # <<>>
    /\ LET e == Head(queue)
       IN /\ queue' = Tail(queue)
          /\ IF EventShouldIngest(e)
             THEN /\ ing' = StartLoad("event", e)
                  /\ hpc' = "ingest"
                  /\ last' = [by |-> "event", name |-> e, res |-> "ingest"]
             ELSE /\ last' = [by |-> "event", name |-> e, res |-> "ignored"]
                  /\ UNCHANGED <<ing, hpc>>
    /\ UNCHANGED <<envVars, diskVars, loaded_files, pc, todo, observer, restarts, ret, rt>>

\* loaded_files.add(file_name) (line 109).
HandlerMark ==
    /\ Alive /\ hpc = "ingest" /\ ing.phase = "returned" /\ ing.by = "event"
    /\ loaded_files' = loaded_files \cup {ing.file}
    /\ ing' = Marked(ing)
    /\ hpc' = "save"
    /\ UNCHANGED <<envVars, diskVars, pc, todo, observer, queue, last, restarts, ret, rt>>

\* save_loaded_files() (line 110): the open ...
HandlerSaveOpen ==
    /\ Alive /\ hpc = "save"
    /\ ledgerFile' = OpenForWrite
    /\ hpc' = "write"
    /\ UNCHANGED <<envVars, store, loaded_files, pc, todo, ing, observer,
                   queue, last, restarts, ret, rt>>

\* ... and the writes and the close.
HandlerSaveWrite ==
    /\ Alive /\ hpc = "write"
    /\ ledgerFile' = WriteLines(loaded_files)
    /\ hpc' = "idle"
    /\ UNCHANGED <<envVars, store, loaded_files, pc, todo, ing, observer,
                   queue, last, restarts, ret, rt>>

\* save_loaded_files raises in on_created, at the open or at a write: the
\* exception leaves on_created and the observer thread's dispatch loop,
\* which ends the observer thread; the main thread stays in its sleep loop.
HandlerSaveFail ==
    /\ Alive /\ hpc \in {"save", "write"}
    /\ hpc' = "idle"
    /\ observer' = "dead"
    /\ last' = LedgerError("event")
    /\ UNCHANGED <<envVars, diskVars, loaded_files, pc, todo, ing, queue,
                   restarts, ret, rt>>

\* -------------------------------------------------------------- environment
\* An entry is created in the watched folder (a routed file that exists is
\* replaced by one with new content, under one of the headers the name can
\* have).  A running observer queues the event.
CreateEntry(e) ==
    /\ creates < MaxCreates
    /\ creates' = creates + 1
    /\ folder' = folder \cup {e}
    /\ fileVer' = IF e \in RoutedFiles /\ e \in folder
                  THEN [fileVer EXCEPT ![e] = @ + 1]
                  ELSE fileVer
    /\ \E cols \in ColumnChoices(e) :
          columns' = IF e \in RoutedFiles
                     THEN [columns EXCEPT ![e] = cols]
                     ELSE columns
    /\ queue' = IF Alive /\ observer = "running" THEN Append(queue, e) ELSE queue
    /\ UNCHANGED <<diskVars, loaded_files, pc, todo, ing, observer, hpc, last, restarts, ret, rt>>

\* The process is killed or the machine fails: memory is lost, the database
\* and the ledger file stay as they are.
Crash ==
    /\ Alive
    /\ pc' = "crashed"
    /\ loaded_files' = {}
    /\ todo' = {}
    /\ ing' = NoIng
    /\ observer' = "none"
    /\ queue' = <<>>
    /\ hpc' = "idle"
    /\ last' = NoLast
    /\ UNCHANGED <<envVars, diskVars, restarts, ret, rt>>

\* The program is started again.
Restart ==
    /\ ~Alive
    /\ restarts < MaxRestarts
    /\ restarts' = restarts + 1
    /\ FreshProcess
    /\ UNCHANGED <<envVars, diskVars, ret, rt>>

Next ==
    \/ LoadPreviousFiles
    \/ LoadPreviousFilesFail
    \/ ListDir
    \/ \E e \in Entries : ScanVisit(e)
    \/ ReadCsvOk
    \/ ReadCsvFail
    \/ \E fate \in RowFates : ProcessRow(fate)
    \/ ScanMark
    \/ ScanSaveOpen
    \/ ScanSaveWrite
    \/ ScanSaveFail
    \/ StartObserver
    \/ EnterSleepLoop
    \/ InterruptUncaught
    \/ InterruptCaught
    \/ Join
    \/ Dispatch
    \/ HandlerMark
    \/ HandlerSaveOpen
    \/ HandlerSaveWrite
    \/ HandlerSaveFail
    \/ \E e \in Entries : CreateEntry(e)
    \/ Crash
    \/ Restart

Spec == Init /\ [][Next]_vars

\* ------------------------------------------- retrieve_data_for_audit_query
\* LIMIT 5 (line 182).
TopLimit == 5

\* TABLE_CONFIG.items() (line 167): the entries in their order of insertion.
ConfigItems == <<"vendors.csv", "invoices.csv">>

\* The query texts tried.
QueryTexts == {<<0>>, <<1>>, <<2>>, <<3>>}

Dot(a, b) == a[1] * b[1] + a[2] * b[2]

\* embedding <=> query_embedding: the cosine distance, here of unit vectors.
CosineDistance(a, b) == 1 - Dot(a, b)

\* 1 - (embedding <=> query_embedding) AS similarity (line 177).
Similarity(embedding, query_embedding) ==
    1 - CosineDistance(embedding, query_embedding)

\* One row of SELECT *, ... AS similarity FROM table, target (lines 172-179):
\* the table's columns, the column of target, and the similarity.
ResultRow(r, query_embedding) ==
    [recordid |-> r.recordid, vendor_name |-> r.vendor_name, memo |-> r.memo,
     embedding |-> r.embedding, query_embedding |-> query_embedding,
     similarity |-> Similarity(r.embedding, query_embedding)]

\* ORDER BY similarity DESC LIMIT k (lines 180-182); rows of equal similarity
\* come in an order the store chooses.
RECURSIVE OrderByDescLimit(_, _)
OrderByDescLimit(rows, k) ==
    IF k = 0 \/ rows = {} THEN <<>>
    ELSE LET first == CHOOSE r \in rows : \A o \in rows : r.similarity >= o.similarity
         IN <<first>> \o OrderByDescLimit(rows \ {first}, k - 1)

RECURSIVE OrderByAscLimit(_, _)
OrderByAscLimit(rows, k) ==
    IF k = 0 \/ rows = {} THEN <<>>
    ELSE LET first == CHOOSE r \in rows : \A o \in rows : r.similarity <= o.similarity
         IN <<first>> \o OrderByAscLimit(rows \ {first}, k - 1)

\* Mutant of VectorQuery: ORDER BY similarity ASC.
VectorQuery_Ascending(rows, query_embedding) ==
    OrderByAscLimit({ResultRow(r, query_embedding) : r \in rows}, TopLimit)

\* cursor.execute(vector_query, ...) and cursor.fetchall() (lines 186-188).
VectorQuery(rows, query_embedding) ==
    OrderByDescLimit({ResultRow(r, query_embedding) : r \in rows}, TopLimit)

\* {"similarity": r[-1], **dict(zip(column names, r))} (line 191): every
\* column of the result row, the similarity among them.
ResultRecord(r) == r

\* table_results[table_name] = ... (line 191): a dict assignment keeps the
\* place of a key that is present and appends a new one.
DictSet(items, key, value) ==
    IF \E k \in 1..Len(items) : items[k].table = key
    THEN [k \in 1..Len(items) |->
             IF items[k].table = key THEN [table |-> key, records |-> value]
             ELSE items[k]]
    ELSE Append(items, [table |-> key, records |-> value])

\* One line of the response (line 198): record.pop('similarity') and the
\* rest of the record as Data.
ReportEntry(record) ==
    [similarity |-> record.similarity,
     data |-> [c \in (DOMAIN record) \ {"similarity"} |-> record[c]]]

\* The response assembled by lines 194-198.
FormatResponse(query_text, table_results) ==
    [query |-> query_text,
     tables |-> [k \in 1..Len(table_results) |->
                    [table |-> table_results[k].table,
                     entries |-> [j \in 1..Len(table_results[k].records) |->
                                     ReportEntry(table_results[k].records[j])]]]]

mainVars == <<folder, fileVer, columns, store, ledgerFile, loaded_files, pc, todo, ing,
              observer, queue, hpc, last, creates, restarts>>

\* get_embedding(query_text) returns (line 160) and the connection opens.
RetrieveEmbed(text) ==
    /\ ret.pc = "idle"
    /\ ret' = [ret EXCEPT !.pc = "search", !.query_text = text,
                          !.query_embedding = get_embedding(text),
                          !.todo = ConfigItems]
    /\ UNCHANGED <<mainVars, rt>>

\* get_embedding(query_text) raises: the call raises.
RetrieveEmbedFail(text) ==
    /\ ret.pc = "idle"
    /\ ret' = [ret EXCEPT !.pc = "raised", !.query_text = text]
    /\ UNCHANGED <<mainVars, rt>>

\* One iteration of the loop of lines 167-191, the search succeeding.
SearchTable ==
    /\ ret.pc = "search" /\ ret.todo # <<>>
    /\ LET table_name == TABLE_CONFIG[Head(ret.todo)].table
           results == VectorQuery(store[table_name], ret.query_embedding)
           records == [k \in 1..Len(results) |-> ResultRecord(results[k])]
       IN ret' = [ret EXCEPT !.todo = Tail(@),
                             !.table_results = DictSet(@, table_name, records)]
    /\ UNCHANGED <<mainVars, rt>>

\* cursor.execute raises at line 187: nothing catches it, the with block of
\* line 166 is left and the call raises.
SearchTableFail ==
    /\ ret.pc = "search" /\ ret.todo # <<>>
    /\ ret' = [ret EXCEPT !.pc = "raised",
                          !.failed = {TABLE_CONFIG[Head(ret.todo)].table}]
    /\ UNCHANGED <<mainVars, rt>>

\* Lines 194-200: the response is built and returned.
ReturnResponse ==
    /\ ret.pc = "search" /\ ret.todo = <<>>
    /\ ret' = [ret EXCEPT !.pc = "done",
                          !.response = FormatResponse(ret.query_text, ret.table_results)]
    /\ UNCHANGED <<mainVars, rt>>

\* The patterns of row contents tried.
SamplePatterns == {0, 1, 2}

\* The table of file f after the ingestion of a file of n rows whose memo
\* column follows pattern p.
SampleRows(f, n, p) ==
    {StoredRow([recordid |-> i, vendor_name |-> i, memo |-> p * i],
               get_embedding(TextForEmbedding(
                   [recordid |-> i, vendor_name |-> i, memo |-> p * i],
                   TABLE_CONFIG[f].text_fields))) : i \in 1..n}

\* The retrieval runs against tables left by earlier ingestions.
InitRetrieve ==
    /\ folder = {"vendors.csv", "archive"}
    /\ fileVer = [f \in RoutedFiles |-> 1]
    /\ columns = [f \in RoutedFiles |-> AllColumns]
    /\ \E n \in [RoutedFiles -> 0..MaxStoreRows], p \in [RoutedFiles -> SamplePatterns] :
          store = [t \in Tables |->
                     LET f == CHOOSE g \in RoutedFiles : TABLE_CONFIG[g].table = t
                     IN SampleRows(f, n[f], p[f])]
    /\ ledgerFile = [exists |-> FALSE, lines |-> {}]
    /\ loaded_files = {}
    /\ pc = "start"
    /\ todo = {}
    /\ ing = NoIng
    /\ observer = "none"
    /\ queue = <<>>
    /\ hpc = "idle"
    /\ last = NoLast
    /\ creates = 0
    /\ restarts = 0
    /\ ret = NoRet
    /\ rt = NoRt

NextRetrieve ==
    \/ \E text \in QueryTexts : RetrieveEmbed(text)
    \/ \E text \in QueryTexts : RetrieveEmbedFail(text)
    \/ SearchTable
    \/ SearchTableFail
    \/ ReturnResponse

SpecRetrieve == InitRetrieve /\ [][NextRetrieve]_vars


\* ------------------------------------- .loaded_files, character by character
\* An identifier is a non-empty sequence of characters, .loaded_files a
\* sequence of characters.
NameChars == {"a", "b", " "}
NewLine == "\n"
Whitespace == {" ", NewLine}
MaxNameLen == 2
MaxNames == 2
Names == UNION {[1..n -> NameChars] : n \in 1..MaxNameLen}
NameSets == {{}} \cup {{f[k] : k \in 1..MaxNames} : f \in [1..MaxNames -> Names]}

\* The orders in which `for file_name in loaded_files` (line 59) can
\* enumerate the set S.
IterationOrders(S) ==
    {o \in [1..Cardinality(S) -> S] : \A i, j \in 1..Cardinality(S) : o[i] = o[j] => i = j}

\* The text written by lines 59-60 for the enumeration order `order`:
\* f.write(file_name + "\n") for each member.
RECURSIVE WrittenText(_)
WrittenText(order) ==
    IF order = <<>> THEN <<>>
    ELSE Head(order) \o <<NewLine>> \o WrittenText(Tail(order))

\* `for line in f` (line 52): the text cut after each newline; a last line
\* without newline is a line too.
RECURSIVE FileLines(_, _)
FileLines(text, line) ==
    IF text = <<>> THEN (IF line = <<>> THEN <<>> ELSE <<line>>)
    ELSE IF Head(text) = NewLine
         THEN <<Append(line, NewLine)>> \o FileLines(Tail(text), <<>>)
         ELSE FileLines(Tail(text), Append(line, Head(text)))

\* line.strip() (line 52): leading and trailing whitespace removed.
RECURSIVE Strip(_)
Strip(line) ==
    IF line = <<>> THEN <<>>
    ELSE IF Head(line) \in Whitespace THEN Strip(Tail(line))
    ELSE IF line[Len(line)] \in Whitespace THEN Strip(SubSeq(line, 1, Len(line) - 1))
    ELSE line

\* loaded_files.update(line.strip() for line in f) (line 52).
StrippedLines(text) ==
    LET lines == FileLines(text, <<>>)
    IN {Strip(lines[k]) : k \in 1..Len(lines)}

\* load_previous_files with no .loaded_files: os.path.exists is false
\* (line 50), nothing is read.
RoundTripLoadAbsent ==
    /\ rt.pc = "start" /\ ~rt.exists
    /\ rt' = [rt EXCEPT !.pc = "loaded_absent", !.loaded = {}]
    /\ UNCHANGED <<mainVars, ret>>

\* save_loaded_files with loaded_files = rt.names (lines 56-60), the set
\* enumerated in any of its orders.
RoundTripSave ==
    /\ rt.pc = "start"
    /\ \E order \in IterationOrders(rt.names) :
          rt' = [rt EXCEPT !.pc = "saved", !.exists = TRUE, !.text = WrittenText(order)]
    /\ UNCHANGED <<mainVars, ret>>

\* load_previous_files into the empty set of a new process (lines 49-54).
RoundTripLoad ==
    /\ rt.pc = "saved"
    /\ rt' = [rt EXCEPT !.pc = "loaded",
                        !.loaded = IF rt.exists THEN StrippedLines(rt.text) ELSE {}]
    /\ UNCHANGED <<mainVars, ret>>

InitLedger ==
    /\ folder = {"vendors.csv", "archive"}
    /\ fileVer = [f \in RoutedFiles |-> 1]
    /\ columns = [f \in RoutedFiles |-> AllColumns]
    /\ store = [t \in Tables |-> {}]
    /\ ledgerFile = [exists |-> FALSE, lines |-> {}]
    /\ loaded_files = {}
    /\ pc = "start"
    /\ todo = {}
    /\ ing = NoIng
    /\ observer = "none"
    /\ queue = <<>>
    /\ hpc = "idle"
    /\ last = NoLast
    /\ creates = 0
    /\ restarts = 0
    /\ ret = NoRet
    /\ \E S \in NameSets : rt = [NoRt EXCEPT !.pc = "start", !.names = S]

NextLedger ==
    \/ RoundTripLoadAbsent
    \/ RoundTripSave
    \/ RoundTripLoad

SpecLedger == InitLedger /\ [][NextLedger]_vars

\* ================================================================== claims
Keys(rows) == {r.recordid : r \in rows}
TableOf(f) == TABLE_CONFIG[f].table
Written(result) == result \in {"inserted", "updated"}

\* Every row of file f has been upserted at least once: rows enter a table
\* only by an upsert and never leave it.
AllRowsUpserted(f) == \A k \in 1..NumRows(f) : k \in Keys(store[TableOf(f)])

\* C1 - Dedup correctness: once a routed file F is in loaded_files, F stays
\* in loaded_files for the rest of the process, no load_and_embed_data call
\* runs for F, and every trigger handled for F (a creation event or an entry
\* of the startup scan) is passed over and leaves every table as it was.
C1_DedupCorrect ==
    [][\A F \in loaded_files \cap RoutedFiles :
          /\ (pc' \notin {"crashed", "start"} => F \in loaded_files')
          /\ ~(InFlight(ing') /\ ing'.file = F)
          /\ (last' # last /\ last'.name = F =>
                 last'.res = "ignored" /\ store' = store)]_vars

\* A creation event for a file already marked has been handled.
C1_Witness ==
    \E F \in loaded_files \cap RoutedFiles :
        Alive /\ last = [by |-> "event", name |-> F, res |-> "ignored"]

\* C2 - Partial-failure isolation for embedding: when a call has returned
\* and get_embedding failed for row i only, every other row of the file has
\* been upserted.
C2_EmbeddingFailureIsolated ==
    (/\ ing.phase = "returned"
     /\ ing.err = "embed"
     /\ \A k \in 1..(Len(ing.log) - 1) : ing.log[k].fate = "ok")
    => \A j \in 1..Len(ing.df) :
          j # Len(ing.log) => j <= Len(ing.log) /\ Written(ing.log[j].result)

\* C3 - Parse failure leaves the file retryable: when read_csv failed, the
\* step that follows the call's return adds the file neither to loaded_files
\* nor to .loaded_files.
C3_ParseFailureNotMarked ==
    [][(ing.phase = "returned" /\ ing.err = "parse")
          => /\ ing.file \notin loaded_files'
             /\ ing.file \notin ledgerFile'.lines]_vars

\* Some save_loaded_files call is between its open and its close, or about
\* to be made for the file just marked.
InSave == pc = "scan_write" \/ hpc \in {"save", "write"} \/ (pc = "scan" /\ todo = {})

\* C4 - Ledger durability: whenever the process runs and is not inside (or
\* about to enter) save_loaded_files, a marked file is recorded in
\* .loaded_files; stated for the file marked last, when every row of it was
\* written.
C4_MarkedIsDurable ==
    (Alive /\ ~InSave) =>
        \A F \in loaded_files :
            (ing.phase = "marked" /\ ing.file = F /\ ing.err = "none")
                => ledgerFile.exists /\ F \in ledgerFile.lines

\* C5 - Store-write failure isolation: every row after a row whose write
\* raised, and whose own embedding and write would succeed, is upserted.
C5_WriteFailureIsolated ==
    \A j \in 1..Len(ing.log) :
        (/\ ing.log[j].fate = "ok"
         /\ \E i \in 1..(j - 1) : ing.log[i].fate \in {"execute", "commit"})
        => Written(ing.log[j].result)

\* C6 - Upsert idempotence: a table never holds two rows with one recordid
\* and holds only recordids of its file, so a second ingestion leaves the
\* same keys and row count; the upsert of a row whose recordid exists
\* replaces that row by the new columns and embedding and changes neither the
\* keys nor the row count, and the upsert of a new recordid adds one row.
C6_UpsertIdempotent ==
    [][/\ \A f \in RoutedFiles :
            /\ Cardinality(store'[TableOf(f)]) = Cardinality(Keys(store'[TableOf(f)]))
            /\ Keys(store'[TableOf(f)]) \subseteq 1..NumRows(f)
       /\ (Len(ing'.log) > Len(ing.log) /\ Written(ing'.log[Len(ing'.log)].result)) =>
            LET config == TABLE_CONFIG[ing.file]
                row == ing.df[ing.idx]
                new == StoredRow(row, get_embedding(TextForEmbedding(row, config.text_fields)))
                old == store[config.table]
                now == store'[config.table]
            IN /\ new \in now
               /\ \A r \in old : r.recordid # row.recordid => r \in now
               /\ IF row.recordid \in Keys(old)
                  THEN /\ ing'.log[Len(ing'.log)].result = "updated"
                       /\ Keys(now) = Keys(old)
                       /\ Cardinality(now) = Cardinality(old)
                  ELSE /\ ing'.log[Len(ing'.log)].result = "inserted"
                       /\ Keys(now) = Keys(old) \cup {row.recordid}
                       /\ Cardinality(now) = Cardinality(old) + 1]_vars

\* A second, complete ingestion of the long file, with new content, has
\* overwritten every row in place.
C6_Witness ==
    /\ ing.phase = "returned"
    /\ Len(ing.df) >= 2
    /\ Len(ing.log) = Len(ing.df)
    /\ \A k \in 1..Len(ing.log) : ing.log[k].result = "updated"
    /\ ing.df[1].memo > 1
    /\ Cardinality(store[TableOf(ing.file)]) = Len(ing.df)
    /\ \A r \in store[TableOf(ing.file)] : r.memo = ing.df[1].memo

\* C7 - Retrieval isolation: when the search of one table raised, the call
\* still returns a response, which holds the results of every other
\* configured table and omits the table that failed.
C7_SearchFailureIsolated ==
    (ret.pc \in {"done", "raised"} /\ ret.failed # {}) =>
        /\ ret.pc = "done"
        /\ \A f \in RoutedFiles :
              (\E k \in 1..Len(ret.response.tables) :
                   ret.response.tables[k].table = TableOf(f))
              <=> TableOf(f) \notin ret.failed

\* C8 - Retrieval ranking: for every table the response reports at most 5
\* rows (all of them when the table has fewer), each a distinct row of the
\* table shown with its cosine similarity to the query embedding, in
\* descending order of similarity, and no row left out is more similar than a
\* row reported.
C8_RetrievalRanking ==
    ret.pc = "done" =>
        /\ \A f \in RoutedFiles :
              \E k \in 1..Len(ret.response.tables) :
                  ret.response.tables[k].table = TableOf(f)
        /\ \A k \in 1..Len(ret.response.tables) :
              LET rows == store[ret.response.tables[k].table]
                  es == ret.response.tables[k].entries
                  cos(r) == Dot(r.embedding, ret.query_embedding)
                  reported == {es[i].data.recordid : i \in 1..Len(es)}
              IN /\ Len(es) <= 5
                 /\ Len(es) = IF Cardinality(rows) < 5 THEN Cardinality(rows) ELSE 5
                 /\ Cardinality(reported) = Len(es)
                 /\ \A i \in 1..Len(es) :
                       \E r \in rows : /\ r.recordid = es[i].data.recordid
                                       /\ es[i].similarity = cos(r)
                 /\ \A i \in 1..Len(es), j \in 1..Len(es) :
                       i < j => es[i].similarity >= es[j].similarity
                 /\ \A r \in rows : r.recordid \notin reported =>
                       \A i \in 1..Len(es) : cos(r) <= es[i].similarity

\* A table of more than 5 rows has been searched: the rows reported differ
\* in similarity and a row less similar than all of them is left out.
C8_Witness ==
    /\ ret.pc = "done"
    /\ \E k \in 1..Len(ret.response.tables) :
          LET rows == store[ret.response.tables[k].table]
              es == ret.response.tables[k].entries
          IN /\ Cardinality(rows) > 5
             /\ Len(es) = 5
             /\ es[1].similarity > es[5].similarity
             /\ \E r \in rows :
                   /\ \A i \in 1..5 : es[i].data.recordid # r.recordid
                   /\ Dot(r.embedding, ret.query_embedding) < es[5].similarity

\* C9 - Shutdown never pre-empts an in-flight file: when the process has
\* ended on KeyboardInterrupt, no load_and_embed_data call is left unfinished
\* and every file marked in memory is recorded in .loaded_files.
C9_ShutdownCompletesFile ==
    pc \in {"returned", "killed"} =>
        /\ ~InFlight(ing)
        /\ loaded_files \subseteq ledgerFile.lines

\* C10 (as stated) - Ledger membership: a routed file is in the ledger if
\* and only if every row of it has been upserted at least once; stated for
\* the file marked last, when its call read the file, embedded every row and
\* lost rows only to their own write errors.
C10_LedgerIffAllRows ==
    Alive => \A F \in RoutedFiles :
        (ing.phase = "marked" /\ ing.file = F /\ ing.err \in {"none", "skipped"})
            => (F \in loaded_files <=> AllRowsUpserted(F))

\* C10 (amended) - A file identifier enters loaded_files only when a
\* load_and_embed_data call for it has returned, or at startup from
\* .loaded_files; it enters .loaded_files only from loaded_files; and when
\* the call that returned wrote every row without an error, every row of the
\* file is in its table at the moment the file is marked.
C10_MarkedOnlyAfterCall ==
    [][\A F \in RoutedFiles :
          /\ (F \in loaded_files' /\ F \notin loaded_files) =>
                \/ ing.file = F /\ ing.phase = "returned"
                \/ pc = "start" /\ F \in ledgerFile.lines
          /\ (F \in ledgerFile'.lines /\ F \notin ledgerFile.lines) =>
                F \in loaded_files
          /\ (/\ F \in loaded_files' /\ F \notin loaded_files
              /\ ing.file = F /\ CallOutcome(ing) = "none")
                => AllRowsUpserted(F)']_vars

\* A file is marked although one of its rows was never upserted: its call
\* read the file and skipped a row whose write raised.
C10_Witness ==
    \E F \in loaded_files \cap RoutedFiles :
        /\ Alive
        /\ ing.phase = "marked" /\ ing.file = F /\ ing.err = "skipped"
        /\ ~AllRowsUpserted(F)

\* Every row of the file read by call i has been attempted: the file parsed
\* and the row loop ran to its end.
AllRowsAttempted(i) ==
    i.phase = "returned" /\ i.err = "none" /\ Len(i.log) = Len(i.df)

\* The caller of the call in `ing` takes its next step and the process goes on.
CallerProceeds ==
    ing.phase = "returned" /\ ing' # ing /\ Alive' /\ pc' # "start"

\* C11 - Mark after all rows attempted: when the file parsed and all its
\* rows have been attempted, the caller's next step marks the file, whatever
\* the number of rows that failed, also when every row failed; and no call
\* is started in this process for a file that is marked.
C11_MarkAfterAllRowsAttempted ==
    [][/\ (AllRowsAttempted(ing) /\ CallerProceeds) =>
              /\ ing.file \in loaded_files'
              /\ ing'.phase = "marked"
       /\ (ing'.phase = "read" /\ ing' # ing) => ing'.file \notin loaded_files]_vars

\* A file is marked although every row of it failed: its call ended with row
\* failures and its table holds no row.
C11_Witness ==
    /\ Alive
    /\ ing.phase = "marked" /\ ing.err \in {"skipped", "aborted"}
    /\ ing.file \in loaded_files
    /\ store[TableOf(ing.file)] = {}

\* The positions of the main thread up to observer.start() (lines 135-142).
BeforeSubscription ==
    pc \in {"start", "listdir", "scan", "scan_ingest", "scan_write", "start_observer"}

\* One thread at most is inside load_and_embed_data, and the startup scan
\* and the handling of events do not overlap.
OneIngestionAtATime ==
    Alive =>
        /\ BeforeSubscription => observer = "none" /\ hpc = "idle" /\ queue = <<>>
        /\ hpc # "idle" => ~BeforeSubscription
        /\ InFlight(ing) => \/ ing.by = "scan" /\ pc = "scan_ingest" /\ hpc = "idle"
                            \/ ing.by = "event" /\ hpc = "ingest" /\ ~BeforeSubscription
        /\ hpc \in {"save", "write"} => ing.phase = "marked" /\ ing.file \in loaded_files

WatcherAtRest ==
    pc = "sleeping" /\ observer = "running" /\ hpc = "idle" /\ queue = <<>>

\* C13 - No routed file is missed: every routed non-directory file of the
\* watched folder, present at startup or created while the process runs
\* (the time of the startup scan included), is ingested and marked; so when
\* the watcher is at rest every routed file of the folder is in loaded_files
\* (stated for runs whose last ingestion wrote every row without an error).
C13_NoRoutedFileMissed ==
    (WatcherAtRest /\ ing.phase = "marked" /\ ing.err = "none") =>
        \A F \in RoutedFiles : (F \in folder /\ IsFile(F)) => F \in loaded_files

\* C14 - The durable ledger only grows: an identifier recorded in
\* .loaded_files is still recorded there after every step, the steps inside
\* save_loaded_files and a crash among them included; and no step of a
\* running process removes an identifier from loaded_files (stated for
\* ledgers, on disk and in memory, of files whose rows were all written).
C14_LedgerOnlyGrows ==
    [][(\A F \in ledgerFile.lines \cup loaded_files : AllRowsUpserted(F)) =>
          /\ ledgerFile.lines \subseteq ledgerFile'.lines
          /\ (Alive /\ Alive') => loaded_files \subseteq loaded_files']_vars

\* C15 - Ledger I/O failure stops the watcher: once load_previous_files or
\* save_loaded_files has raised, in the startup scan or in a handler, this
\* process starts no load_and_embed_data call, writes no row, marks no file
\* and takes no creation event from the queue, and its observer does not
\* run.
C15_LedgerFailureStopsWatcher ==
    [][(last.res = "ledger_error" /\ pc' \notin {"start", "crashed"}) =>
          /\ last' = last
          /\ ing' = ing /\ store' = store /\ loaded_files' = loaded_files
          /\ ledgerFile' = ledgerFile
          /\ queue' = queue /\ hpc' = "idle"
          /\ observer' # "running"]_vars

\* save_loaded_files has raised in a handler after its file was marked in
\* memory: the observer thread is gone while the main thread is still in
\* its sleep loop.
C15_Witness ==
    /\ last = LedgerError("event")
    /\ pc = "sleeping" /\ observer = "dead"
    /\ ing.phase = "marked" /\ ing.by = "event"

\* The call in i has failed as a whole: it was abandoned at line 93.
FileFailed(i) == i.phase = "returned" /\ i.err # "none"

\* The thread that made the failed call in `ing` is where a call that
\* succeeded would have left it, and the watcher has not stopped.
CallerUnharmed ==
    /\ pc \notin {"failed", "returned", "crashed"}
    /\ observer # "dead"
    /\ ing.by = "scan" => pc \in {"scan_ingest", "killed"} /\ observer = "none"
    /\ ing.by = "event" => hpc = "ingest" /\ observer \in {"running", "stopping"}

\* C16 - File-level failures do not escalate: when load_and_embed_data has
\* failed as a whole for a file, the watcher has not stopped, and its caller
\* goes on as after a success: the scan keeps its remaining backlog and
\* stays in its loop, on the way to starting the observer; the handler goes
\* on to its save, the observer running and the queued events kept.
C16_FileFailureDoesNotEscalate ==
    [][/\ FileFailed(ing') => CallerUnharmed'
       /\ (FileFailed(ing) /\ CallerProceeds) =>
              /\ ing'.phase = "marked"
              /\ ing.by = "scan" => pc' = "scan" /\ todo' = todo
              /\ ing.by = "event" =>
                     hpc' = "save" /\ observer' = observer /\ queue' = queue]_vars

\* The only backlog file failed to parse in the startup scan; the watcher
\* is in its watch loop and has handled a creation event since.
C16_Witness ==
    /\ ing.phase = "marked" /\ ing.by = "scan" /\ ing.err = "parse"
    /\ pc = "sleeping" /\ observer = "running"
    /\ last.by = "event" /\ last.res = "ignored"

\* The file read by call i lacks a text field that TABLE_CONFIG names for it.
MissingTextField(i) ==
    /\ i.phase \in {"rows", "returned"} /\ i.df # <<>>
    /\ ~HasFields(i.df[1], TABLE_CONFIG[i.file].text_fields)

\* C17 - Missing text field is treated as empty: when a configured text
\* field is no column of the file, load_and_embed_data raises no failure and
\* still embeds and upserts every row; so a call on such a file that has
\* returned, no row of it having met an embedding or write error, has
\* written every row.
C17_MissingFieldIsEmpty ==
    (/\ MissingTextField(ing) /\ ing.phase = "returned"
     /\ \A k \in 1..Len(ing.log) : ing.log[k].fate \in {"ok", "none"})
        => /\ ing.err = "none"
           /\ Len(ing.log) = Len(ing.df)
           /\ \A k \in 1..Len(ing.log) : Written(ing.log[k].result)

\* Entry e is one a trigger has to ignore: a directory, a name without a
\* routing rule, or a file already in the ledger.
ToBeIgnored(e) ==
    IsDirectory(e) \/ e \notin DOMAIN TABLE_CONFIG \/ e \in loaded_files

\* The step changes nothing but the trigger's own bookkeeping: no call is
\* started, no table or ledger is touched, no thread changes its position.
NothingDone ==
    /\ ing' = ing /\ store' = store
    /\ loaded_files' = loaded_files /\ ledgerFile' = ledgerFile
    /\ pc' = pc /\ hpc' = hpc /\ observer' = observer
    /\ last'.res = "ignored"

\* C18 - Ignored triggers change nothing: the handling of a creation event
\* for a directory, for a name without routing rule or for a file already in
\* the ledger, and the visit of such an entry by process_existing_files,
\* performs no upsert, leaves loaded_files and the tables unchanged and
\* raises no error.
C18_IgnoredTriggersChangeNothing ==
    [][(pc' \notin {"start", "crashed"}) =>
          /\ (Len(queue') < Len(queue) /\ ToBeIgnored(Head(queue))) =>
                 NothingDone /\ last'.name = Head(queue)
          /\ (pc = "scan" /\ todo' # todo) =>
                 \A e \in todo \ todo' :
                     ToBeIgnored(e) => NothingDone /\ last'.name = e]_vars

\* A creation event for a file without routing rule has been handled while
\* a file is in the ledger and its rows are in its table.
C18_Witness ==
    /\ Alive /\ last = [by |-> "event", name |-> "notes.txt", res |-> "ignored"]
    /\ loaded_files # {} /\ \E t \in Tables : store[t] # {}

\* C19 - Report contents: every entry of the report shows the similarity
\* and all columns of its row, and shows neither the row's embedding vector
\* nor the query embedding: its data are exactly the columns of the file.
C19_ReportContents ==
    ret.pc = "done" =>
        \A k \in 1..Len(ret.response.tables) :
            \A j \in 1..Len(ret.response.tables[k].entries) :
                LET entry == ret.response.tables[k].entries[j]
                IN /\ "similarity" \in DOMAIN entry
                   /\ AllColumns \subseteq DOMAIN entry.data
                   /\ "embedding" \notin DOMAIN entry.data
                   /\ "query_embedding" \notin DOMAIN entry.data

\* C20 - Ledger round trip: for every set S of identifiers,
\* save_loaded_files with loaded_files = S followed by load_previous_files
\* into an empty set yields exactly S, whatever the order of writing; and
\* load_previous_files without a ledger file yields the empty set.
C20_LedgerRoundTrip ==
    /\ rt.pc = "loaded" => rt.loaded = rt.names
    /\ rt.pc = "loaded_absent" => rt.loaded = {}

====
